---- MODULE Spec2Model ----
(***************************************************************************)
(* Model of the self-updater of github.com/mJehanno/ghr-self-updater       *)
(* (src/main.go): CheckLatest, Update, CheckAndUpdate and the helpers      *)
(* getAsset, downloadAsset, installNewRelease and rollack.                 *)
(*                                                                         *)
(* Strings are sequences of one-character strings, so that ReplaceAll,     *)
(* Contains and the semver parser work on characters as the code does.     *)
(* The filesystem is a function from paths to file contents; every         *)
(* os call may fail, and fails when its source file does not exist.        *)
(***************************************************************************)
EXTENDS Integers, Sequences, FiniteSets, TLC

(***************************************************************************)
(* Bounds                                                                  *)
(***************************************************************************)
\* number of public calls (CheckLatest, Update, CheckAndUpdate) in a run
MaxCalls == 2
\* length of the asset list of a release
MaxAssets == 2

(***************************************************************************)
(* Strings                                                                 *)
(***************************************************************************)
Digits == {"0", "1", "2", "3", "4", "5", "6", "7", "8", "9"}

DigitVal == [c \in Digits |->
    CASE c = "0" -> 0 [] c = "1" -> 1 [] c = "2" -> 2 [] c = "3" -> 3
      [] c = "4" -> 4 [] c = "5" -> 5 [] c = "6" -> 6 [] c = "7" -> 7
      [] c = "8" -> 8 [] c = "9" -> 9]

Letters == {"a", "d", "e", "v", "w", "x", "z"}

\* byte value of a character, the order Go compares strings in
CharOrd(c) ==
    CASE c = "+" -> 43 [] c = "-" -> 45 [] c = "." -> 46
      [] c \in Digits -> 48 + DigitVal[c]
      [] c = "_" -> 95
      [] c = "a" -> 97 [] c = "d" -> 100 [] c = "e" -> 101
      [] c = "v" -> 118 [] c = "w" -> 119 [] c = "x" -> 120 [] c = "z" -> 122
      [] OTHER -> 0

\* strings.Compare: -1, 0, 1 by bytes, a proper prefix is smaller
RECURSIVE StrCompare(_, _)
StrCompare(a, b) ==
    IF a = <<>> /\ b = <<>> THEN 0
    ELSE IF a = <<>> THEN -1
    ELSE IF b = <<>> THEN 1
    ELSE IF CharOrd(Head(a)) < CharOrd(Head(b)) THEN -1
    ELSE IF CharOrd(Head(a)) > CharOrd(Head(b)) THEN 1
    ELSE StrCompare(Tail(a), Tail(b))

\* strings.Contains(s, sub)
Contains(s, sub) ==
    \E i \in 0..(Len(s) - Len(sub)) : SubSeq(s, i + 1, i + Len(sub)) = sub

\* strings.ReplaceAll(s, c, ""): every occurrence of the character c is dropped
ReplaceAll(s, c) == SelectSeq(s, LAMBDA x : x # c)

\* strings.IndexRune(s, c), 1-based; 0 when c does not occur
IndexRune(s, c) ==
    IF \E i \in 1..Len(s) : s[i] = c
    THEN CHOOSE i \in 1..Len(s) : s[i] = c /\ \A j \in 1..(i - 1) : s[j] # c
    ELSE 0

\* strings.Split(s, "."): the fields between the dots, empty fields kept
RECURSIVE Split(_, _)
Split(s, c) ==
    LET i == IndexRune(s, c) IN
    IF i = 0 THEN <<s>>
    ELSE <<SubSeq(s, 1, i - 1)>> \o Split(SubSeq(s, i + 1, Len(s)), c)

\* strings.SplitN(s, ".", n): at most n fields, the last one holds the rest
RECURSIVE SplitN(_, _, _)
SplitN(s, c, n) ==
    LET i == IndexRune(s, c) IN
    IF n <= 1 \/ i = 0 THEN <<s>>
    ELSE <<SubSeq(s, 1, i - 1)>> \o SplitN(SubSeq(s, i + 1, Len(s)), c, n - 1)

ContainsOnly(s, set) == \A i \in 1..Len(s) : s[i] \in set

HasLeadingZeroes(s) == Len(s) > 1 /\ s[1] = "0"

\* strconv.ParseUint(s, 10, 64) of a string of digits
RECURSIVE ParseUint(_)
ParseUint(s) ==
    IF s = <<>> THEN 0
    ELSE 10 * ParseUint(SubSeq(s, 1, Len(s) - 1)) + DigitVal[s[Len(s)]]

(***************************************************************************)
(* semver (github.com/blang/semver), as used by CheckLatest                *)
(***************************************************************************)
ParseError == [err |-> TRUE]

\* a numeric field: digits only, not empty, no leading zero
NumericOK(s) == s # <<>> /\ ContainsOnly(s, Digits) /\ ~HasLeadingZeroes(s)

\* semver.NewPRVersion: one prerelease identifier
PRVersionOK(s) ==
    /\ s # <<>>
    /\ ContainsOnly(s, Digits \cup Letters \cup {"-"})
    /\ (ContainsOnly(s, Digits) => ~HasLeadingZeroes(s))

NewPRVersion(s) ==
    IF ContainsOnly(s, Digits)
    THEN [isNum |-> TRUE, num |-> ParseUint(s), str |-> <<>>]
    ELSE [isNum |-> FALSE, num |-> 0, str |-> s]

BuildOK(s) == s # <<>> /\ ContainsOnly(s, Digits \cup Letters \cup {"-"})

\* semver.Parse
Parse(s) ==
    LET parts == SplitN(s, ".", 3) IN
    IF s = <<>> \/ Len(parts) # 3 THEN ParseError
    ELSE
      LET p2         == parts[3]
          buildIndex == IndexRune(p2, "+")
          build      == IF buildIndex # 0
                        THEN Split(SubSeq(p2, buildIndex + 1, Len(p2)), ".")
                        ELSE <<>>
          p2a        == IF buildIndex # 0 THEN SubSeq(p2, 1, buildIndex - 1) ELSE p2
          preIndex   == IndexRune(p2a, "-")
          pre        == IF preIndex # 0
                        THEN Split(SubSeq(p2a, preIndex + 1, Len(p2a)), ".")
                        ELSE <<>>
          patchStr   == IF preIndex # 0 THEN SubSeq(p2a, 1, preIndex - 1) ELSE p2a
      IN
      IF /\ NumericOK(parts[1])
         /\ NumericOK(parts[2])
         /\ NumericOK(patchStr)
         /\ \A i \in 1..Len(pre) : PRVersionOK(pre[i])
         /\ \A i \in 1..Len(build) : BuildOK(build[i])
      THEN [err   |-> FALSE,
            major |-> ParseUint(parts[1]),
            minor |-> ParseUint(parts[2]),
            patch |-> ParseUint(patchStr),
            pre   |-> [i \in 1..Len(pre) |-> NewPRVersion(pre[i])],
            build |-> build]
      ELSE ParseError

\* semver.PRVersion.Compare: numeric identifiers are below alphanumeric ones
PRCompare(a, b) ==
    IF a.isNum /\ ~b.isNum THEN -1
    ELSE IF ~a.isNum /\ b.isNum THEN 1
    ELSE IF a.isNum /\ b.isNum
         THEN (IF a.num = b.num THEN 0 ELSE IF a.num > b.num THEN 1 ELSE -1)
    ELSE StrCompare(a.str, b.str)

RECURSIVE PreCompare(_, _)
PreCompare(a, b) ==
    IF a = <<>> /\ b = <<>> THEN 0
    ELSE IF a = <<>> THEN -1
    ELSE IF b = <<>> THEN 1
    ELSE LET c == PRCompare(Head(a), Head(b)) IN
         IF c # 0 THEN c ELSE PreCompare(Tail(a), Tail(b))

\* semver.Version.Compare: major, minor, patch, then the prerelease; a
\* version without prerelease is above the same version with one
Compare(v, o) ==
    IF v.major # o.major THEN (IF v.major > o.major THEN 1 ELSE -1)
    ELSE IF v.minor # o.minor THEN (IF v.minor > o.minor THEN 1 ELSE -1)
    ELSE IF v.patch # o.patch THEN (IF v.patch > o.patch THEN 1 ELSE -1)
    ELSE IF Len(v.pre) = 0 /\ Len(o.pre) = 0 THEN 0
    ELSE IF Len(v.pre) = 0 THEN 1
    ELSE IF Len(o.pre) = 0 THEN -1
    ELSE PreCompare(v.pre, o.pre)

LTE(v, o) == Compare(v, o) <= 0

(***************************************************************************)
(* Inputs: platforms, the releases the release source may return, the      *)
(* versions the application may be built with                              *)
(***************************************************************************)
LinuxAmd64   == <<"l", "i", "n", "u", "x", "-", "a", "m", "d", "6", "4">>
DarwinArm64  == <<"d", "a", "r", "w", "i", "n", "-", "a", "r", "m", "6", "4">>
WindowsAmd64 == <<"w", "i", "n", "d", "o", "w", "s", "-", "a", "m", "d", "6", "4">>

\* fmt.Sprintf("%s-%s", runtime.GOOS, runtime.GOARCH) on the builds modelled
Platforms == {LinuxAmd64, DarwinArm64, WindowsAmd64}

\* github.ReleaseAsset: an opaque id and a name
AllAssets ==
    { [id |-> 1, name |-> <<"a", "_">> \o LinuxAmd64],
      [id |-> 2, name |-> LinuxAmd64 \o <<".", "x">>],
      [id |-> 3, name |-> <<"a", "_">> \o DarwinArm64] }

AssetNames == {a.name : a \in AllAssets}

\* rel.Assets: every list of at most MaxAssets different assets
AssetLists ==
    UNION {{l \in [1..n -> AllAssets] :
              \A i, j \in 1..n : l[i] = l[j] => i = j} : n \in 0..MaxAssets}

\* rel.GetTagName(): well-formed tags with and without the "v" prefix, with
\* prereleases that contain "v", and malformed ones
Tags ==
    { <<"1", ".", "0", ".", "0">>,
      <<"v", "1", ".", "0", ".", "0">>,
      <<"v", "1", ".", "1", ".", "0">>,
      <<"v", "0", ".", "9", ".", "0">>,
      <<"1", ".", "1", "0", ".", "0">>,
      <<"v", "1", ".", "0", ".", "0", "-", "w">>,
      <<"1", ".", "0", ".", "0", "-", "v", "z">>,
      <<"1", ".", "0", ".", "0", "-", "w", "v">>,
      <<"v", "1", ".", "0">>,
      <<"x">>,
      <<>> }

\* the semver.Version handed to New
CurrentVersions ==
    { Parse(<<"1", ".", "0", ".", "0">>),
      Parse(<<"1", ".", "0", ".", "0", "-", "w">>),
      Parse(<<"1", ".", "0", ".", "0", "-", "v", "z">>) }

(***************************************************************************)
(* Filesystem                                                              *)
(***************************************************************************)
\* os.Executable(): the path of the running binary
ExePath == <<"e", "x", "e">>

\* fmt.Sprintf("%s-old", exePath)
OldPathOf(p) == p \o <<"-", "o", "l", "d">>

OldPath == OldPathOf(ExePath)

\* path.Join(os.TempDir(), u.assetName)
TmpPathOf(name) == <<"t", "/">> \o name

Paths == {ExePath, OldPath} \cup {TmpPathOf(n) : n \in AssetNames}

NoFile == [kind |-> "none", id |-> 0, complete |-> FALSE]

\* the binary the application was started from
Orig == [kind |-> "orig", id |-> 0, complete |-> TRUE]

\* the bytes of release asset id, written completely or only in part
AssetFile(id, complete) == [kind |-> "asset", id |-> id, complete |-> complete]

\* a rename that copies: the source stays where it was
Rename_Copy(f, src, dst) == [f EXCEPT ![dst] = f[src]]

\* os.Rename(src, dst) when it succeeds: dst is replaced, src is gone
Rename(f, src, dst) == [f EXCEPT ![dst] = f[src], ![src] = NoFile]

\* a remove that deletes the file set aside instead of the file at p
Remove_Old(f, p) == [f EXCEPT ![p \o <<"-", "o", "l", "d">>] = NoFile]

\* os.Remove(p) when it succeeds
Remove(f, p) == [f EXCEPT ![p] = NoFile]

\* a rollack that renames in the wrong direction
rollackRename_Swapped(f, p) == Rename(f, p, OldPathOf(p))

\* rollack: os.Rename(exePath + "-old", u.exePath) when it succeeds
rollackRename(f, p) == Rename(f, OldPathOf(p), p)

\* an os call on path p can succeed only if the file exists
CanSucceed(f, p) == f[p] # NoFile

(***************************************************************************)
(* Errors: an error value is the set of the failures it wraps, nil is {}   *)
(***************************************************************************)
Nil == {}

\* a rollack that reports the first failure only
Join_First(errRem, errRen) == IF errRem # Nil THEN errRem ELSE errRen

\* errors.Join(errRem, errRen) of rollack: every non-nil error is kept
Join(errRem, errRen) == errRem \cup errRen

\* fmt.Errorf("failed to rollback (%w) after ... -> %w", errRoll, err)
WrapRollback(errRoll, errLaunch) == errRoll \cup errLaunch

(***************************************************************************)
(* The pure parts of CheckLatest, getAsset, installNewRelease and          *)
(* CheckAndUpdate                                                          *)
(***************************************************************************)
\* the version CheckLatest compares, for every tag: every "v" of the tag is
\* removed before it is parsed
ParseTag == [tag \in Tags |-> Parse(ReplaceAll(tag, "v"))]

\* what GetLatestRelease answers: an error, or a release
NoRelease == [err |-> TRUE, tag |-> <<>>, assets |-> <<>>]

Releases ==
    {NoRelease} \cup
    {[err |-> FALSE, tag |-> t, assets |-> l] : t \in Tags, l \in AssetLists}

\* the version a release tag names: the tag without its "v" prefix
TagVersion ==
    [tag \in Tags |->
        Parse(IF tag # <<>> /\ Head(tag) = "v" THEN Tail(tag) ELSE tag)]

\* how the version of the release compares to current; "none" if the lookup
\* failed or the tag names no version
ReleaseCmp(rel, current) ==
    IF rel.err \/ TagVersion[rel.tag].err THEN "none"
    ELSE LET c == Compare(TagVersion[rel.tag], current) IN
         IF c < 0 THEN "older" ELSE IF c = 0 THEN "same" ELSE "newer"

\* CheckLatest parsed the release's tag as the version the tag names, or
\* failed on a tag that names none
TagExact(rel) == rel.err \/ ParseTag[rel.tag] = TagVersion[rel.tag]

\* the record of the last successful CheckLatest after a CheckLatest that was
\* answered rel and returned r
LastAfterCheck(l, rel, r) ==
    IF r.err = Nil
    THEN [assets |-> rel.assets, isLatest |-> r.isLatest, stale |-> FALSE]
    ELSE [l EXCEPT !.stale = TRUE]

\* the record after an Update has run getAsset on the assets
LastAfterUse(l) == [l EXCEPT !.stale = TRUE]

\* a CheckLatest that answers false when the tag does not parse
CheckLatestRet_FalseOnParseErr(rel, current) ==
    IF rel.err THEN [isLatest |-> TRUE, err |-> {"getLatestRelease"}]
    ELSE IF ParseTag[rel.tag].err THEN [isLatest |-> FALSE, err |-> {"parse"}]
    ELSE [isLatest |-> LTE(ParseTag[rel.tag], current), err |-> Nil]

\* what CheckLatest returns
CheckLatestRet(rel, current) ==
    IF rel.err THEN [isLatest |-> TRUE, err |-> {"getLatestRelease"}]
    ELSE IF ParseTag[rel.tag].err THEN [isLatest |-> TRUE, err |-> {"parse"}]
    ELSE [isLatest |-> LTE(ParseTag[rel.tag], current), err |-> Nil]

\* a CheckLatest that adds the assets of the release to those it has
CheckLatestAssets_Append(rel, old) ==
    IF rel.err \/ ParseTag[rel.tag].err THEN old ELSE old \o rel.assets

\* a CheckLatest that keeps the assets before it parses the tag
CheckLatestAssets_BeforeParse(rel, old) ==
    IF rel.err THEN old ELSE rel.assets

\* u.assets after CheckLatest: assigned only past both error returns
CheckLatestAssets(rel, old) ==
    IF rel.err \/ ParseTag[rel.tag].err THEN old ELSE rel.assets

\* an IndexFunc that finds the last match
IndexFunc_Last(as, plat) ==
    IF \E i \in 1..Len(as) : Contains(as[i].name, plat)
    THEN CHOOSE i \in 1..Len(as) :
            /\ Contains(as[i].name, plat)
            /\ \A j \in (i + 1)..Len(as) : ~Contains(as[j].name, plat)
    ELSE 0

\* slices.IndexFunc(u.assets, name contains platform): 1-based, 0 for -1
IndexFunc(as, plat) ==
    IF \E i \in 1..Len(as) : Contains(as[i].name, plat)
    THEN CHOOSE i \in 1..Len(as) :
            /\ Contains(as[i].name, plat)
            /\ \A j \in 1..(i - 1) : ~Contains(as[j].name, plat)
    ELSE 0

\* getAsset: the asset found, or the error "release asset not found"
getAsset(as, plat) ==
    LET index == IndexFunc(as, plat) IN
    IF index = 0
    THEN [err |-> {"notFound"}, asset |-> [id |-> 0, name |-> <<>>]]
    ELSE [err |-> Nil, asset |-> as[index]]

\* installNewRelease gives the new binary the executable permission
NeedsChmod(plat) == Contains(plat, <<"l", "i", "n", "u", "x">>)

\* a CheckAndUpdate that updates whenever the check did not fail
Proceeds_IgnoreLatest(c) == c.err = Nil

\* CheckAndUpdate goes on to Update
Proceeds(c) == c.err = Nil /\ ~c.isLatest

\* exec.Command(exePath).Run(): nil only if the binary started and exited 0
LaunchOutcomes == {"exit0", "exitNonZero", "startFailed"}

\* a launch that only fails if the binary exited with a non-zero code
RunErr_OnlyExitCode(outcome) ==
    IF outcome = "exitNonZero" THEN {"launch"} ELSE Nil

\* a launch that only fails if the binary did not start
RunErr_IgnoreExitCode(outcome) ==
    IF outcome = "startFailed" THEN {"launch"} ELSE Nil

RunErr(outcome) == IF outcome = "exit0" THEN Nil ELSE {"launch"}

\* the ways downloadAsset ends
DownloadOutcomes == {"downloadErr", "redirect", "createErr", "copyErr", "ok"}

(***************************************************************************)
(* State                                                                   *)
(***************************************************************************)
VARIABLES
    Current,    \* Updater.Current
    platform,   \* repositoryInfo.platform
    assets,     \* repositoryInfo.assets
    assetID,    \* installInfo.assetID
    assetName,  \* installInfo.assetName
    tmpPath,    \* installInfo.tmpPath
    exePath,    \* installInfo.exePath
    fs,         \* the files at the paths the updater touches
    handles,    \* the handles downloadAsset opened and has not closed
    pc,         \* the position of the call in flight, "idle" between calls
    call,       \* the public method in flight or last returned
    ret,        \* what the last call returned
    chk,        \* what the CheckLatest of the call returned
    errRem,     \* errRem of rollack
    ops,        \* the side effects of the call, in order: <<operation, ok>>
    relCmp,     \* the release the call was given against Current: "none" or
                \* "older", "same" (the same version) or "newer"
    tagExact,   \* the version CheckLatest parsed is the one the tag names
    last,       \* the last successful CheckLatest: the assets it fetched, the
                \* boolean it returned, and whether they are stale: an Update
                \* has run on them or a CheckLatest has failed since
    stale0,     \* the assets were stale when the call started
    fs0,        \* the files when the call started
    checkedOK,  \* some CheckLatest of this Updater returned a nil error
    calls       \* number of public calls made

vars == <<Current, platform, assets, assetID, assetName, tmpPath, exePath, fs,
          handles, pc, call, ret, chk, errRem, ops, relCmp, tagExact, last,
          stale0, fs0, checkedOK, calls>>

NoRet   == [op |-> "none", err |-> Nil]
NoCheck == [isLatest |-> FALSE, err |-> {"none"}]
NoCmp   == "none"
NoLast  == [assets |-> <<>>, isLatest |-> TRUE, stale |-> FALSE]

\* New: the assets are nil, the install info is zero
Init ==
    /\ Current \in CurrentVersions
    /\ platform \in Platforms
    /\ assets = <<>>
    /\ assetID = 0
    /\ assetName = <<>>
    /\ tmpPath = <<>>
    /\ exePath = <<>>
    /\ fs = [p \in Paths |-> IF p = ExePath THEN Orig ELSE NoFile]
    /\ handles = {}
    /\ pc = "idle"
    /\ call = "none"
    /\ ret = NoRet
    /\ chk = NoCheck
    /\ errRem = Nil
    /\ ops = <<>>
    /\ relCmp = NoCmp
    /\ tagExact = TRUE
    /\ last = NoLast
    /\ stale0 = FALSE
    /\ fs0 = fs
    /\ checkedOK = FALSE
    /\ calls = 0

Methods == {"CheckLatest", "Update", "CheckAndUpdate"}

\* the application calls a public method of the Updater
Invoke ==
    /\ pc = "idle"
    /\ calls < MaxCalls
    /\ calls' = calls + 1
    /\ \E m \in Methods : call' = m /\ pc' = m
    /\ ret' = NoRet
    /\ chk' = NoCheck
    /\ errRem' = Nil
    /\ ops' = <<>>
    /\ relCmp' = NoCmp
    /\ tagExact' = TRUE
    /\ stale0' = last.stale
    /\ handles' = {}
    /\ fs0' = fs
    /\ UNCHANGED <<Current, platform, assets, assetID, assetName, tmpPath,
                   exePath, fs, last, checkedOK>>

\* the call in flight returns err
Return(err) ==
    /\ pc' = "idle"
    /\ ret' = [op |-> call, err |-> err]

Log(op, ok) == ops' = Append(ops, <<op, ok>>)

\* func (u *Updater) CheckLatest() (bool, error)
CheckLatest ==
    /\ pc = "CheckLatest"
    /\ \E rel \in Releases :
         /\ chk' = CheckLatestRet(rel, Current)
         /\ assets' = CheckLatestAssets(rel, assets)
         /\ relCmp' = ReleaseCmp(rel, Current)
         /\ tagExact' = TagExact(rel)
         /\ last' = LastAfterCheck(last, rel, chk')
         /\ checkedOK' = (checkedOK \/ chk'.err = Nil)
         /\ Return(chk'.err)
    /\ UNCHANGED <<Current, platform, assetID, assetName, tmpPath, exePath,
                   fs, handles, call, errRem, ops, stale0, fs0, calls>>

\* Update up to the call of downloadAsset: getAsset, assetID, assetName
UpdateBegin(as) ==
    LET r == getAsset(as, platform) IN
    IF r.err # Nil
    THEN /\ Return(r.err)
         /\ Log("getAsset", FALSE)
         /\ UNCHANGED <<assetID, assetName>>
    ELSE /\ assetID' = r.asset.id
         /\ assetName' = r.asset.name
         /\ Log("getAsset", TRUE)
         /\ pc' = "download"
         /\ ret' = NoRet

\* func (u *Updater) Update() error
Update ==
    /\ pc = "Update"
    /\ UpdateBegin(assets)
    /\ last' = LastAfterUse(last)
    /\ UNCHANGED <<Current, platform, assets, tmpPath, exePath, fs, handles,
                   call, chk, errRem, relCmp, tagExact, stale0, fs0,
                   checkedOK, calls>>

\* func (u *Updater) CheckAndUpdate() error
CheckAndUpdate ==
    /\ pc = "CheckAndUpdate"
    /\ \E rel \in Releases :
         /\ chk' = CheckLatestRet(rel, Current)
         /\ assets' = CheckLatestAssets(rel, assets)
         /\ relCmp' = ReleaseCmp(rel, Current)
         /\ tagExact' = TagExact(rel)
         /\ checkedOK' = (checkedOK \/ chk'.err = Nil)
         /\ IF Proceeds(chk')
            THEN /\ UpdateBegin(assets')
                 /\ last' = LastAfterUse(LastAfterCheck(last, rel, chk'))
            ELSE /\ Return(chk'.err)
                 /\ last' = LastAfterCheck(last, rel, chk')
                 /\ UNCHANGED <<assetID, assetName, ops>>
    /\ UNCHANGED <<Current, platform, tmpPath, exePath, fs, handles, call,
                   errRem, stale0, fs0, calls>>

\* a downloadAsset that goes on to the temp file when a redirect is reported
CreatesTmp_OnRedirect(o) == o # "downloadErr"

\* downloadAsset reaches os.Create: the download call returned no error and
\* no redirect URL
CreatesTmp(o) == o \in {"createErr", "copyErr", "ok"}

\* a downloadAsset that does not look at the error of io.Copy
DownloadErr_IgnoreCopy(o) == IF o \in {"ok", "copyErr"} THEN Nil ELSE {o}

\* what downloadAsset returns
DownloadErr(o) == IF o = "ok" THEN Nil ELSE {o}

\* what downloadAsset does before it ends with outcome o; a redirect is
\* logged as not handled
DownloadOps(o) ==
    <<<<"DownloadReleaseAsset", o # "downloadErr">>>>
    \o (IF o = "redirect" THEN <<<<"redirect", FALSE>>>> ELSE <<>>)
    \o (IF CreatesTmp(o)
        THEN <<<<"Create", o # "createErr">>>> ELSE <<>>)
    \o (IF CreatesTmp(o) /\ o # "createErr"
        THEN <<<<"Copy", o = "ok">>>> ELSE <<>>)

\* func (u *Updater) downloadAsset() error
DownloadAsset ==
    /\ pc = "download"
    /\ UNCHANGED <<Current, platform, assets, assetID, assetName, exePath,
                   call, chk, errRem, relCmp, tagExact, last, stale0, fs0,
                   checkedOK, calls>>
    /\ \E o \in DownloadOutcomes :
         /\ ops' = ops \o DownloadOps(o)
         /\ tmpPath' = IF CreatesTmp(o) THEN TmpPathOf(assetName) ELSE tmpPath
         \* os.Create truncates the file, io.Copy fills it
         /\ fs' = IF CreatesTmp(o) /\ o # "createErr"
                  THEN [fs EXCEPT ![tmpPath'] = AssetFile(assetID, o = "ok")]
                  ELSE fs
         \* the deferred Close calls are registered after os.Create returned
         /\ handles' = IF o = "createErr" THEN {"reader"} ELSE {}
         /\ IF DownloadErr(o) = Nil
            THEN pc' = "executable" /\ ret' = NoRet
            ELSE Return(DownloadErr(o))

\* installNewRelease: exePath, err := os.Executable()
Executable ==
    /\ pc = "executable"
    /\ UNCHANGED <<Current, platform, assets, assetID, assetName, tmpPath, fs,
                   handles, call, chk, errRem, relCmp, tagExact, last, stale0,
                   fs0, checkedOK, calls>>
    /\ \E ok \in BOOLEAN :
         /\ Log("Executable", ok)
         /\ IF ok
            THEN exePath' = ExePath /\ pc' = "renameOld" /\ ret' = NoRet
            ELSE exePath' = exePath /\ Return({"executable"})

\* an installNewRelease that goes on when the rename aside failed
RenameOld_IgnoreErr ==
    /\ pc = "renameOld"
    /\ UNCHANGED <<Current, platform, assets, assetID, assetName, tmpPath,
                   exePath, handles, call, chk, errRem, relCmp, tagExact,
                   last, stale0, fs0, checkedOK, calls>>
    /\ \E ok \in BOOLEAN :
         /\ ok => CanSucceed(fs, exePath)
         /\ Log("renameOld", ok)
         /\ fs' = IF ok THEN Rename(fs, exePath, OldPathOf(exePath)) ELSE fs
         /\ pc' = "renameNew"
         /\ ret' = NoRet

\* installNewRelease: os.Rename(exePath, exePath + "-old")
RenameOld ==
    /\ pc = "renameOld"
    /\ UNCHANGED <<Current, platform, assets, assetID, assetName, tmpPath,
                   exePath, handles, call, chk, errRem, relCmp, tagExact,
                   last, stale0, fs0, checkedOK, calls>>
    /\ \E ok \in BOOLEAN :
         /\ ok => CanSucceed(fs, exePath)
         /\ Log("renameOld", ok)
         /\ IF ok
            THEN /\ fs' = Rename(fs, exePath, OldPathOf(exePath))
                 /\ pc' = "renameNew"
                 /\ ret' = NoRet
            ELSE fs' = fs /\ Return({"renameOld"})

\* installNewRelease: os.Rename(u.tmpPath, exePath)
RenameNew ==
    /\ pc = "renameNew"
    /\ UNCHANGED <<Current, platform, assets, assetID, assetName, tmpPath,
                   exePath, handles, call, chk, errRem, relCmp, tagExact,
                   last, stale0, fs0, checkedOK, calls>>
    /\ \E ok \in BOOLEAN :
         /\ ok => CanSucceed(fs, tmpPath)
         /\ Log("renameNew", ok)
         /\ IF ok
            THEN /\ fs' = Rename(fs, tmpPath, exePath)
                 /\ pc' = IF NeedsChmod(platform) THEN "chmod" ELSE "launch"
                 /\ ret' = NoRet
            ELSE fs' = fs /\ Return({"renameNew"})

\* installNewRelease: os.Chmod(exePath, 0775)
Chmod ==
    /\ pc = "chmod"
    /\ UNCHANGED <<Current, platform, assets, assetID, assetName, tmpPath,
                   exePath, fs, handles, call, chk, errRem, relCmp, tagExact,
                   last, stale0, fs0, checkedOK, calls>>
    /\ \E ok \in BOOLEAN :
         /\ ok => CanSucceed(fs, exePath)
         /\ Log("chmod", ok)
         /\ IF ok
            THEN pc' = "launch" /\ ret' = NoRet
            ELSE Return({"chmod"})

\* installNewRelease: exec.Command(exePath).Run()
Launch ==
    /\ pc = "launch"
    /\ UNCHANGED <<Current, platform, assets, assetID, assetName, tmpPath,
                   exePath, fs, handles, call, chk, errRem, relCmp, tagExact,
                   last, stale0, fs0, checkedOK, calls>>
    /\ \E o \in LaunchOutcomes :
         /\ (o # "startFailed") => CanSucceed(fs, exePath)
         /\ Log("launch", o = "exit0")
         /\ IF RunErr(o) = Nil
            THEN Return(Nil)
            ELSE pc' = "rollbackRemove" /\ ret' = NoRet

\* rollack: errRem := os.Remove(u.exePath)
RollbackRemove ==
    /\ pc = "rollbackRemove"
    /\ UNCHANGED <<Current, platform, assets, assetID, assetName, tmpPath,
                   exePath, handles, call, ret, chk, relCmp, tagExact, last,
                   stale0, fs0, checkedOK, calls>>
    /\ \E ok \in BOOLEAN :
         /\ ok => CanSucceed(fs, exePath)
         /\ Log("rollbackRemove", ok)
         /\ fs' = IF ok THEN Remove(fs, exePath) ELSE fs
         /\ errRem' = IF ok THEN Nil ELSE {"rollbackRemove"}
         /\ pc' = "rollbackRename"

\* what installNewRelease returns after rollack, errRen being the failure of
\* the rename back
RollbackRet(eRem, eRen) == WrapRollback(Join(eRem, eRen), {"launch"})

\* rollack: errRen := os.Rename(exePath + "-old", u.exePath), and the return
\* of installNewRelease
RollbackRename ==
    /\ pc = "rollbackRename"
    /\ UNCHANGED <<Current, platform, assets, assetID, assetName, tmpPath,
                   exePath, handles, call, chk, errRem, relCmp, tagExact,
                   last, stale0, fs0, checkedOK, calls>>
    /\ \E ok \in BOOLEAN :
         /\ ok => CanSucceed(fs, OldPathOf(exePath))
         /\ Log("rollbackRename", ok)
         /\ fs' = IF ok THEN rollackRename(fs, exePath) ELSE fs
         /\ Return(RollbackRet(errRem, IF ok THEN Nil ELSE {"rollbackRename"}))

Next ==
    \/ Invoke
    \/ CheckLatest
    \/ Update
    \/ CheckAndUpdate
    \/ DownloadAsset
    \/ Executable
    \/ RenameOld
    \/ RenameNew
    \/ Chmod
    \/ Launch
    \/ RollbackRemove
    \/ RollbackRename

Spec == Init /\ [][Next]_vars

(***************************************************************************)
(* Properties                                                              *)
(***************************************************************************)
\* the call has returned
Returned == pc = "idle" /\ ret.op # "none"

\* the call that returned ran Update: Update itself or CheckAndUpdate
UpdateOps == {"Update", "CheckAndUpdate"}

Did(op)    == \E i \in 1..Len(ops) : ops[i][1] = op
DidOk(op)  == \E i \in 1..Len(ops) : ops[i] = <<op, TRUE>>
Failed(op) == \E i \in 1..Len(ops) : ops[i] = <<op, FALSE>>

\* the launch failed after both renames of the install succeeded
LaunchFailedAfterInstall ==
    DidOk("renameOld") /\ DidOk("renameNew") /\ Failed("launch")

\* C1 as stated: whenever the launch of the new binary fails after a
\* successful install, Update returns with the original executable path
\* holding the pre-update binary, whatever the rollback's sub-steps did.
C1_AsStated ==
    (Returned /\ LaunchFailedAfterInstall) => fs[ExePath] = fs0[ExePath]

\* C1 amended: whenever the launch of the new binary fails after a
\* successful install and the rollback's rename of the -old file back
\* succeeds, whatever the outcome of the remove, Update returns with the
\* original executable path holding the pre-update binary.
C1_RestoredIfRenamedBack ==
    (Returned /\ LaunchFailedAfterInstall /\ DidOk("rollbackRename"))
        => (fs[ExePath] = fs0[ExePath] /\ fs0[ExePath] # NoFile)

C1_Witness ==
    /\ Returned
    /\ LaunchFailedAfterInstall
    /\ Failed("rollbackRemove")
    /\ DidOk("rollbackRename")
    /\ fs[ExePath] = Orig

\* C2: whenever Update returns nil, the original executable path holds the
\* completely downloaded asset that getAsset resolved, the -old path holds
\* the binary that was at the original path before the call, and the
\* launched binary exited with code 0.
C2_SuccessLayout ==
    (Returned /\ ret.op \in UpdateOps /\ ret.err = Nil /\ Did("getAsset"))
        => /\ fs[ExePath] = AssetFile(getAsset(assets, platform).asset.id, TRUE)
           /\ fs[OldPath] = fs0[ExePath]
           /\ ops[Len(ops)] = <<"launch", TRUE>>

C2_Witness ==
    /\ Returned
    /\ ret.op = "Update"
    /\ ret.err = Nil
    /\ fs[OldPath] = Orig
    /\ fs[ExePath].kind = "asset"

\* C3: whenever CheckLatest returns a non-nil error, from the release
\* lookup or from the tag parse, the boolean it returns is true.
C3_TrueOnError ==
    (Returned /\ chk # NoCheck /\ chk.err # Nil) => chk.isLatest

C3_Witness ==
    Returned /\ ret.op = "CheckLatest" /\ ret.err = {"parse"} /\ chk.isLatest

\* C4: on an Updater on which no CheckLatest has succeeded, Update returns
\* the not-found error and has no side effect: it never gets past getAsset,
\* so there is no download call, no temp file, no rename, chmod, launch or
\* remove, and the files are as they were.
C4_NoAssetsNoUpdate ==
    (call = "Update" /\ ~checkedOK)
        => /\ pc \in {"Update", "idle"}
           /\ fs = fs0
           /\ handles = {}
           /\ Returned => (ret.err = {"notFound"} /\ ops = <<<<"getAsset", FALSE>>>>)

C4_Witness ==
    Returned /\ ret.op = "Update" /\ ~checkedOK /\ calls = 2

\* C5: CheckAndUpdate invokes Update if and only if its CheckLatest returned
\* no error and reported not up to date; when the check fails it returns the
\* check's error without invoking Update, and when the check reports up to
\* date it returns nil without invoking Update.
C5_UpdateIffNewer ==
    (call = "CheckAndUpdate" /\ pc # "CheckAndUpdate")
        => /\ Did("getAsset") <=> (chk.err = Nil /\ ~chk.isLatest)
           /\ chk.err # Nil => (Returned /\ ret.err = chk.err /\ ops = <<>>)
           /\ (chk.err = Nil /\ chk.isLatest)
                 => (Returned /\ ret.err = Nil /\ ops = <<>>)

C5_Witness ==
    Returned /\ ret.op = "CheckAndUpdate" /\ chk.err = Nil /\ chk.isLatest

\* C6: a CheckAndUpdate that is given a release whose version is not newer
\* than Current leaves the files (executable path, -old path, temp files)
\* as they were, in the first call and in the calls that follow it.
C6_NoChangeWhenUpToDate ==
    (Returned /\ ret.op = "CheckAndUpdate" /\ relCmp \in {"older", "same"}) => fs = fs0

\* C7: when CheckLatest returns no error, its boolean is true if the latest
\* release's version equals Current and false if it is strictly newer.
C7_BoolFollowsVersion ==
    (Returned /\ ret.op = "CheckLatest" /\ ret.err = Nil)
        => /\ relCmp = "same" => chk.isLatest
           /\ relCmp = "newer" => ~chk.isLatest

\* the positions of the assets whose name contains the platform string
Matching == {i \in 1..Len(assets) : Contains(assets[i].name, platform)}

\* C8: asset resolution returns the first asset in listed order whose name
\* contains the platform string, and the not-found error if and only if no
\* asset name contains it.
C8_FirstMatch ==
    Did("getAsset")
        => IF Matching = {}
           THEN Returned /\ ret.err = {"notFound"} /\ Failed("getAsset")
           ELSE /\ DidOk("getAsset")
                /\ \E i \in Matching :
                     /\ \A j \in Matching : i <= j
                     /\ assetID = assets[i].id
                     /\ assetName = assets[i].name
                /\ Returned => ret.err # {"notFound"}

C8_Witness ==
    /\ DidOk("getAsset")
    /\ Cardinality(Matching) = 2
    /\ assetID = assets[1].id

\* C9: when rollback runs, both of its sub-steps are attempted whatever the
\* outcome of the other, and the error Update returns contains the launch
\* failure together with the failure of every rollback sub-step that failed.
C9_RollbackReportsAll ==
    (Returned /\ Failed("launch"))
        => /\ Did("rollbackRemove")
           /\ Did("rollbackRename")
           /\ ret.err = {"launch"} \cup
                {e \in {"rollbackRemove", "rollbackRename"} : Failed(e)}

C9_Witness ==
    Returned /\ Failed("rollbackRemove") /\ Failed("rollbackRename")

\* the Unix-like operating systems among the platforms
UnixLike(plat) ==
    \/ Contains(plat, <<"l", "i", "n", "u", "x">>)
    \/ Contains(plat, <<"d", "a", "r", "w", "i", "n">>)
    \/ Contains(plat, <<"f", "r", "e", "e", "b", "s", "d">>)

\* C10: on every Unix-like platform Update sets the executable permission
\* on the new binary after the install rename and before it launches it; on
\* the other platforms there is no such step.
C10_ChmodOnUnix ==
    \A i \in 1..Len(ops) :
        ops[i][1] = "launch"
            => /\ UnixLike(platform)
                    => (ops[i - 1] = <<"chmod", TRUE>>
                        /\ ops[i - 2] = <<"renameNew", TRUE>>)
               /\ ~UnixLike(platform) => ~Did("chmod")

\* C11: when the asset download call reports a redirect URL, Update returns
\* an error at once: the redirect is not followed by a second download call,
\* no temp file is created and no file is renamed or changed.
C11_RedirectFailsFast ==
    Did("redirect")
        => /\ Returned
           /\ ret.err = {"redirect"}
           /\ ops[Len(ops)] = <<"redirect", FALSE>>
           /\ Cardinality({i \in 1..Len(ops) :
                             ops[i][1] = "DownloadReleaseAsset"}) = 1
           /\ ~Did("Create")
           /\ fs = fs0

C11_Witness ==
    Returned /\ Did("redirect") /\ ret.op = "Update" /\ fs[ExePath] = Orig

\* the steps of rollack
RollbackSteps == {"rollbackRemove", "rollbackRename"}

\* C12: within one Update, rollback is executed if and only if the launch
\* step was reached and failed; a failure of the move-aside rename, of the
\* install rename or of the permission step returns that error without
\* running rollback.
C12_RollbackIffLaunchFailed ==
    /\ ((\E r \in RollbackSteps : Did(r) \/ pc = r) => Failed("launch"))
    /\ Failed("launch") => (pc = "rollbackRemove" \/ Did("rollbackRemove"))
    /\ (Returned /\ Failed("launch")) => \A r \in RollbackSteps : Did(r)
    /\ \A op \in {"renameOld", "renameNew", "chmod"} :
         Failed(op) => /\ Returned
                       /\ ret.err = {op}
                       /\ \A r \in RollbackSteps : ~Did(r)

C12_Witness ==
    /\ Returned
    /\ Failed("launch")
    /\ DidOk("rollbackRemove")
    /\ DidOk("rollbackRename")

\* C13: if renaming the downloaded file to the original executable path
\* fails after the current executable was renamed to the -old path, Update
\* returns that error with no file at the original executable path and the
\* previous binary at the -old path only.
C13_InstallRenameFailure ==
    Failed("renameNew")
        => /\ Returned
           /\ ret.err = {"renameNew"}
           /\ fs0[ExePath] # NoFile
           /\ fs[ExePath] = NoFile
           /\ fs[OldPath] = fs0[ExePath]

C13_Witness ==
    Returned /\ Failed("renameNew") /\ fs[OldPath] = Orig

\* C14: if renaming the current executable to the -old path fails, Update
\* returns that error and no later step (install rename, chmod, launch,
\* rollback) runs, so the original path and the -old path hold what they
\* held before the call.
C14_MoveAsideFailure ==
    Failed("renameOld")
        => /\ Returned
           /\ ret.err = {"renameOld"}
           /\ ops[Len(ops)] = <<"renameOld", FALSE>>
           /\ fs[ExePath] = fs0[ExePath]
           /\ fs[OldPath] = fs0[OldPath]

C14_Witness ==
    Returned /\ Failed("renameOld") /\ fs[ExePath] = Orig

\* the error Update returns when a step before the install fails
StageErr(op) ==
    CASE op = "getAsset" -> {"notFound"}
      [] op = "DownloadReleaseAsset" -> {"downloadErr"}
      [] op = "Create" -> {"createErr"}
      [] op = "Copy" -> {"copyErr"}

\* C15: the current executable is renamed aside only after the asset was
\* resolved and its download was written completely without error: if the
\* asset resolution, the download call, the temp-file creation or the body
\* copy fails, Update returns that error and the executable path and the
\* -old path are unchanged.
C15_DownloadBeforeMoveAside ==
    /\ \A op \in {"getAsset", "DownloadReleaseAsset", "Create", "Copy"} :
         Failed(op) => /\ Returned
                       /\ ret.err = StageErr(op)
                       /\ ~Did("renameOld")
                       /\ fs[ExePath] = fs0[ExePath]
                       /\ fs[OldPath] = fs0[OldPath]
    /\ Did("renameOld")
         => \A op \in {"getAsset", "DownloadReleaseAsset", "Create", "Copy"} :
              DidOk(op)
    /\ pc = "renameOld" => fs[tmpPath] = AssetFile(assetID, TRUE)

C15_Witness ==
    Returned /\ Failed("Copy") /\ fs[ExePath] = Orig

\* C16: an Update acts only on assets fetched by the most recent CheckLatest
\* and not yet used: an Update that is called when an Update has already
\* run on the assets, or when a CheckLatest has failed since they were
\* fetched, finds no assets.
C16_StaleAssetsNotFound ==
    (call = "Update" /\ stale0 /\ Did("getAsset")) => Failed("getAsset")

\* C17: on every exit path of the asset download, every handle that was
\* opened (the response body, the created file) is closed when the function
\* returns.
C17_HandlesClosed ==
    (Did("DownloadReleaseAsset") /\ pc # "download") => handles = {}

\* C18: CheckLatest parses the tag with only a leading "v" removed and every
\* other character kept: the version it compares is the version the tag
\* names, also when the prerelease or build part contains "v".
C18_OnlyPrefixStripped ==
    (chk # NoCheck) => tagExact

\* C19: in every state during and after Update, whatever steps fail, the
\* pre-update binary is at the original executable path or at the -old path.
C19_OldBinaryKept ==
    (call \in UpdateOps /\ fs0[ExePath] # NoFile)
        => (fs[ExePath] = fs0[ExePath] \/ fs[OldPath] = fs0[ExePath])

C19_Witness ==
    /\ pc = "rollbackRename"
    /\ fs0[ExePath] = Orig
    /\ fs[ExePath] = NoFile
    /\ fs[OldPath] = Orig

\* C20 as stated: Update replaces the executable only with an asset of a
\* release that CheckLatest found newer than Current; after CheckLatest
\* returned (true, nil) Update does not install the fetched release.
C20_AsStated ==
    DidOk("renameNew") => ~last.isLatest

\* C20 amended: Update replaces the executable only with the platform asset
\* of the release fetched by the last successful CheckLatest, whatever
\* boolean that CheckLatest returned; only within CheckAndUpdate is the
\* install limited to a release reported as not up to date.
C20_InstallsLastFetched ==
    pc \in {"chmod", "launch"}
        => /\ checkedOK
           /\ assets = last.assets
           /\ fs[ExePath] =
                AssetFile(getAsset(last.assets, platform).asset.id, TRUE)
           /\ call = "CheckAndUpdate" => ~last.isLatest

C20_Witness ==
    pc = "launch" /\ call = "Update" /\ last.isLatest /\ fs[OldPath] = Orig

====
